---- MODULE Spec2Model ----
(***************************************************************************)
(* mhook: artifacts kept in an object store under the MUFL layout          *)
(*   /$project/$branch/HEAD, /$project/$branch/latest/*,                   *)
(*   /$project/$branch/$commit/*                                           *)
(* Go strings are TLA+ strings; a byte of a file or object body is one     *)
(* character of a string.                                                  *)
(***************************************************************************)
EXTENDS Integers, Sequences, FiniteSets, TLC

----------------------------------------------------------------------------
(* Strings and paths *)

CharAt(s, i) == SubSeq(s, i, i)

\* s[n:]
Drop(s, n) == SubSeq(s, n + 1, Len(s))

HasPrefix(s, p) == Len(p) <= Len(s) /\ SubSeq(s, 1, Len(p)) = p

HasSlash(s) == \E i \in 1..Len(s) : CharAt(s, i) = "/"

\* fmt.Sprintf for a format of literal text and %s verbs
RECURSIVE Sprintf(_, _)
Sprintf(f, args) ==
    IF Len(f) = 0 THEN ""
    ELSE IF Len(f) >= 2 /\ SubSeq(f, 1, 2) = "%s"
         THEN (IF Len(args) = 0 THEN "%!s(MISSING)" ELSE Head(args))
                  \o Sprintf(Drop(f, 2), IF Len(args) = 0 THEN args ELSE Tail(args))
         ELSE CharAt(f, 1) \o Sprintf(Drop(f, 1), args)

\* the elements of a path between its separators
RECURSIVE Split(_)
Split(s) ==
    IF Len(s) = 0 THEN <<"">>
    ELSE LET r == Split(Drop(s, 1))
         IN  IF CharAt(s, 1) = "/" THEN <<"">> \o r
             ELSE <<CharAt(s, 1) \o Head(r)>> \o Tail(r)

RECURSIVE JoinSegs(_)
JoinSegs(segs) ==
    IF Len(segs) = 0 THEN ""
    ELSE IF Len(segs) = 1 THEN segs[1]
    ELSE segs[1] \o "/" \o JoinSegs(Tail(segs))

RECURSIVE CleanStack(_, _, _)
CleanStack(segs, stack, rooted) ==
    IF Len(segs) = 0 THEN stack
    ELSE LET e == Head(segs)
             r == Tail(segs)
         IN  IF e = "" \/ e = "." THEN CleanStack(r, stack, rooted)
             ELSE IF e = ".."
                  THEN IF Len(stack) > 0 /\ stack[Len(stack)] # ".."
                       THEN CleanStack(r, SubSeq(stack, 1, Len(stack) - 1), rooted)
                       ELSE IF rooted THEN CleanStack(r, stack, rooted)
                       ELSE CleanStack(r, Append(stack, ".."), rooted)
                  ELSE CleanStack(r, Append(stack, e), rooted)

\* filepath.Clean
Clean(p) ==
    LET rooted == HasPrefix(p, "/")
        body   == JoinSegs(CleanStack(Split(p), <<>>, rooted))
    IN  IF rooted THEN "/" \o body
        ELSE IF body = "" THEN "." ELSE body

\* filepath.Join of two elements: empty elements are ignored, the result cleaned
Join(a, b) ==
    IF a = "" /\ b = "" THEN ""
    ELSE IF a = "" THEN Clean(b)
    ELSE IF b = "" THEN Clean(a)
    ELSE Clean(a \o "/" \o b)

\* the index of the last "/" of s, 0 when it has none
LastSlash(s) ==
    LET at == {i \in 1..Len(s) : CharAt(s, i) = "/"}
    IN  IF at = {} THEN 0 ELSE CHOOSE i \in at : \A j \in at : j <= i

\* filepath.Dir
Dir(p) == Clean(SubSeq(p, 1, LastSlash(p)))

RECURSIVE StripSlashes(_)
StripSlashes(p) ==
    IF Len(p) > 0 /\ CharAt(p, Len(p)) = "/"
    THEN StripSlashes(SubSeq(p, 1, Len(p) - 1))
    ELSE p

\* filepath.Base
Base(p) ==
    IF p = "" THEN "."
    ELSE LET q == StripSlashes(p)
         IN  IF q = "" THEN "/" ELSE Drop(q, LastSlash(q))

\* the proper ancestors of a cleaned path, outermost first, without "." and "/"
RECURSIVE Ancestors(_)
Ancestors(p) ==
    LET d == Dir(p)
    IN  IF d = "." \/ d = "/" \/ d = p THEN <<>> ELSE Append(Ancestors(d), d)

----------------------------------------------------------------------------
(* Key Resolver *)

\* Mhook.HeadKey
HeadKey(m) == Sprintf("/%s/%s/HEAD", <<m.Project, m.Branch>>)

\* a Key that leaves the commit out
KeyNoCommit(m, target) == Sprintf("/%s/%s/%s", <<m.Project, m.Branch, target>>)

\* a Key that leaves the branch out
KeyNoBranch(m, target) == Sprintf("/%s/%s/%s", <<m.Project, m.Commit, target>>)

\* Mhook.Key
Key(m, target) ==
    Sprintf("/%s/%s/%s/%s", <<m.Project, m.Branch, m.Commit, target>>)

----------------------------------------------------------------------------
(* Bounds and inputs *)

\* the number of invocations of the program in one behaviour
MaxCmds == 2

\* the number of invocations that wait for their target in one behaviour
MaxWaits == 1

\* the number of objects the store returns in one page of a listing
PageSize == 2

\* the number of times the store's existence waiter polls before it gives up
MaxAttempts == 2

\* the flag values of the invocations: bucket, project, branch, commit
Flags ==
    { [bucket |-> "bk", project |-> "p", branch |-> "b", commit |-> "c1"],
      [bucket |-> "bk", project |-> "p", branch |-> "b", commit |-> "latest"],
      [bucket |-> "bk", project |-> "p", branch |-> "",  commit |-> "c1"],
      [bucket |-> "bk", project |-> "",  branch |-> "b", commit |-> "c1"],
      [bucket |-> "",   project |-> "p", branch |-> "b", commit |-> "c1"] }

\* upload arguments
Sources  == {"src", "src/a", "nosuch"}
Prefixes == {"t/"}

\* download arguments; no destination means the base name of the target
Targets      == {"t/a", "t"}
Destinations == {"", "src", "src/a", "ro/o"}

\* bodies the store's uploader sends in parts: the object's ETag is then not
\* the MD5 of its content
MultipartBodies == {"B"}

\* names ioutil.TempFile can draw; it takes one that does not exist
TempNames == <<"mhook-1", "mhook-2">>

----------------------------------------------------------------------------
(* Errors *)

Nil == [type |-> "nil", op |-> "", path |-> "", code |-> ""]

PathError(op, path, errno) ==
    [type |-> "PathError", op |-> op, path |-> path, code |-> errno]

\* awserr.RequestFailure: the service's code and the HTTP status
RequestFailure(code, status) ==
    [type |-> "RequestFailure", op |-> "", path |-> status, code |-> code]

\* the waiter's error after its last attempt
WaitTimeout ==
    [type |-> "awserr", op |-> "", path |-> "", code |-> "ResourceNotReady"]

\* failures of the transport or the service that a request can end with
ServiceErrors == {RequestFailure("InternalError", "500")}

----------------------------------------------------------------------------
(* The object store *)

\* the content digest of readMD5Sum, hex of the MD5 of the bytes
MD5Hex(data) == "md5:" \o data

\* the ETag the store gives a body: the MD5 of a body put in one request,
\* an opaque tag for one uploaded in parts
ETagOf(data) ==
    IF data \in MultipartBodies THEN "mpu:" \o data \o "-2" ELSE MD5Hex(data)

\* the name the store knows an object by: the request key without the leading
\* "/" (Download lists with Key(target)[1:])
ObjectName(key) == IF HasPrefix(key, "/") THEN Drop(key, 1) ELSE key

PutObject(s, key, body) ==
    [k \in DOMAIN s \cup {ObjectName(key)} |->
        IF k = ObjectName(key) THEN [body |-> body, etag |-> ETagOf(body)] ELSE s[k]]

ObjectExists(s, key) == ObjectName(key) \in DOMAIN s

\* UTF-8 binary order of the characters keys are made of
Alphabet == "-./0123456789ABCDEFGHIJKLMNOPQRSTUVWXYZ_abcdefghijklmnopqrstuvwxyz"

Rank(c) == CHOOSE i \in 1..Len(Alphabet) : CharAt(Alphabet, i) = c

RECURSIVE StrLess(_, _)
StrLess(s, t) ==
    IF Len(t) = 0 THEN FALSE
    ELSE IF Len(s) = 0 THEN TRUE
    ELSE IF CharAt(s, 1) = CharAt(t, 1) THEN StrLess(Drop(s, 1), Drop(t, 1))
    ELSE Rank(CharAt(s, 1)) < Rank(CharAt(t, 1))

RECURSIVE SortStrings(_)
SortStrings(S) ==
    IF S = {} THEN <<>>
    ELSE LET x == CHOOSE x \in S : \A y \in S \ {x} : StrLess(x, y)
         IN  <<x>> \o SortStrings(S \ {x})

\* the keys under prefix after marker, in the store's listing order
Listing(s, prefix, marker) ==
    SortStrings({k \in DOMAIN s : HasPrefix(k, prefix) /\ StrLess(marker, k)})

----------------------------------------------------------------------------
(* The local filesystem: path -> file or directory; "." and "/" always exist *)

RootDirs == {".", "/"}

IsDir(f, p) == p \in RootDirs \/ (p \in DOMAIN f /\ f[p].kind = "dir")

IsFile(f, p) == p \in DOMAIN f /\ f[p].kind = "file"

Writable(f, p) == p \in RootDirs \/ (p \in DOMAIN f /\ f[p].kind = "dir" /\ f[p].data = "rw")

WriteEntry(f, p, e) == [q \in DOMAIN f \cup {p} |-> IF q = p THEN e ELSE f[q]]

RemoveEntry(f, p) == [q \in DOMAIN f \ {p} |-> f[q]]

FileEntry(data) == [kind |-> "file", data |-> data]

DirEntry(mode) == [kind |-> "dir", data |-> mode]

RECURSIVE MkdirEach(_, _)
MkdirEach(f, todo) ==
    IF Len(todo) = 0 THEN [err |-> Nil, fs |-> f]
    ELSE LET p == Head(todo)
         IN  IF IsDir(f, p) THEN MkdirEach(f, Tail(todo))
             ELSE IF p \in DOMAIN f
                  THEN [err |-> PathError("mkdir", p, "ENOTDIR"), fs |-> f]
             ELSE IF ~Writable(f, Dir(p))
                  THEN [err |-> PathError("mkdir", p, "EACCES"), fs |-> f]
             ELSE MkdirEach(WriteEntry(f, p, DirEntry("rw")), Tail(todo))

\* os.MkdirAll
MkdirAll(f, path) ==
    IF path \in RootDirs THEN [err |-> Nil, fs |-> f]
    ELSE MkdirEach(f, Append(Ancestors(path), path))

\* ioutil.TempFile(dir, "mhook-"): a new empty file under a name not in use
TempFile(f, dir) ==
    LET free == {i \in 1..Len(TempNames) : Join(dir, TempNames[i]) \notin DOMAIN f}
    IN  IF ~Writable(f, dir) \/ free = {}
        THEN [err |-> PathError("open", Join(dir, "mhook-"), "EACCES"), fs |-> f, name |-> ""]
        ELSE LET n == Join(dir, TempNames[CHOOSE i \in free : \A j \in free : i <= j])
             IN  [err |-> Nil, fs |-> WriteEntry(f, n, FileEntry("")), name |-> n]

\* a readMD5Sum that hashes no bytes when the file cannot be opened
readMD5SumOfNothing(f, path) == IF IsFile(f, path) THEN MD5Hex(f[path].data) ELSE MD5Hex("")

\* readMD5Sum: "" when the file cannot be opened or read
readMD5Sum(f, path) == IF IsFile(f, path) THEN MD5Hex(f[path].data) ELSE ""

\* os.Rename of a file: it replaces a file, it cannot replace a directory
Rename(f, from, to) ==
    IF IsDir(f, to)
    THEN [err |-> [type |-> "LinkError", op |-> "rename", path |-> to, code |-> "EEXIST"],
          fs |-> f]
    ELSE [err |-> Nil, fs |-> RemoveEntry(WriteEntry(f, to, f[from]), from)]

\* the temp files in the filesystem
TempFiles(f) == {p \in DOMAIN f : HasPrefix(Base(p), "mhook-")}

\* segment-wise order in which filepath.Walk visits paths
RECURSIVE SegLess(_, _)
SegLess(a, b) ==
    IF Len(b) = 0 THEN FALSE
    ELSE IF Len(a) = 0 THEN TRUE
    ELSE IF Head(a) = Head(b) THEN SegLess(Tail(a), Tail(b))
    ELSE StrLess(Head(a), Head(b))

RECURSIVE SortPaths(_)
SortPaths(S) ==
    IF S = {} THEN <<>>
    ELSE LET x == CHOOSE x \in S : \A y \in S \ {x} : SegLess(Split(x), Split(y))
         IN  <<x>> \o SortPaths(S \ {x})

\* the regular files filepath.Walk(root) hands to the walk function, in order
WalkFiles(f, root) ==
    SortPaths({p \in DOMAIN f : IsFile(f, p) /\ (p = root \/ HasPrefix(p, root \o "/"))})

----------------------------------------------------------------------------
(* State *)

VARIABLES
    store,      \* the bucket: object name -> [body, etag]
    fs,         \* the local filesystem: path -> [kind, data]
    pc,         \* where the running invocation is; "idle" between invocations
    cmd,        \* the command line of the invocation
    m,          \* its Mhook
    ncmd,       \* invocations started
    exit,       \* how the last invocation ended: [code, err, out]
    req,        \* the last request sent to the store: [op, key, m]
    walk,       \* Upload: the files filepath.Walk has still to visit
    wlog,       \* the keys the invocation has written to the store, in order
    up,         \* the last file Upload sent: [m, target, data]
    published,  \* the commits of the publishes that have completed, oldest first
    d,          \* Download: the downloader [dir, prefix, err]
    marker,     \* Download: the key the next page of the listing starts after
    page,       \* Download: the objects of the current page still to fetch
    more,       \* Download: whether the listing has a further page
    xf,         \* downloadToFile: [key, file, temp, etag, left, pre]
    dlog,       \* the objects this Download has finished with: [key, file, res, err, bytes]
    polls,      \* Wait: attempts made
    coordA,     \* Key Resolver under test: a coordinate
    coordB,     \* a second coordinate
    keys        \* the keys resolved for them: [a, b, head]

vars == <<store, fs, pc, cmd, m, ncmd, exit, req, walk, wlog, up, published, d, marker,
          page, more, xf, dlog, polls, coordA, coordB, keys>>

upVars  == <<walk, wlog, up, published>>
dlVars  == <<d, marker, page, more, xf, dlog>>
keyVars == <<coordA, coordB, keys>>

NoCmd == [name |-> "", commit |-> "", source |-> "", prefix |-> "", latest |-> FALSE,
          target |-> "", destination |-> "", wait |-> FALSE]
NoMhook == [Bucket |-> "", Project |-> "", Branch |-> "", Commit |-> ""]
NoReq == [op |-> "", key |-> "", cond |-> "", m |-> NoMhook]
NoXf == [key |-> "", file |-> "", temp |-> "", etag |-> "", left |-> "",
         pre |-> [kind |-> "none", data |-> ""]]
NoDownloader == [dir |-> "", prefix |-> "", err |-> Nil]
NoUp == [m |-> NoMhook, target |-> "", data |-> ""]
NoCoord == [Project |-> "", Branch |-> "", Commit |-> "", target |-> ""]
NoKeys == [a |-> "", b |-> "", head |-> "", done |-> FALSE]
NoExit == [code |-> "", err |-> Nil, out |-> "", by |-> ""]

\* objects other writers have stored before the first invocation
InitStore ==
    [k \in {"p/b/c1/t/a", "p/b/c1/t/x", "p/b/c1/t/y"} |->
        LET body == IF k = "p/b/c1/t/a" THEN "nw"
                    ELSE IF k = "p/b/c1/t/x" THEN "B"
                    ELSE "3"
        IN  [body |-> body, etag |-> ETagOf(body)]]

\* the working directory before the first invocation
InitFS ==
    [q \in {"src", "src/a", "src/sub", "src/sub/a", "ro"} |->
        IF q = "src/a" THEN FileEntry("hi")
        ELSE IF q = "src/sub/a" THEN FileEntry("B")
        ELSE IF q = "ro" THEN DirEntry("ro")
        ELSE DirEntry("rw")]

\* the state before the first invocation, over a bucket and a working directory
InitWith(s0, f0) ==
    /\ store = s0
    /\ fs = f0
    /\ pc = "idle"
    /\ cmd = NoCmd
    /\ m = NoMhook
    /\ ncmd = 0
    /\ exit = NoExit
    /\ req = NoReq
    /\ walk = <<>>
    /\ wlog = <<>>
    /\ up = NoUp
    /\ published = <<>>
    /\ d = NoDownloader
    /\ marker = ""
    /\ page = <<>>
    /\ more = FALSE
    /\ xf = NoXf
    /\ dlog = <<>>
    /\ polls = 0

ProgramInit == InitWith(InitStore, InitFS)

Init ==
    /\ ProgramInit
    /\ coordA = NoCoord
    /\ coordB = NoCoord
    /\ keys = NoKeys

----------------------------------------------------------------------------
(* Command line *)

\* collectOptions: the process exits when bucket or project is empty
collectOptions(o) ==
    IF o.bucket = "" \/ o.project = ""
    THEN [exit |-> TRUE, m |-> NoMhook]
    ELSE [exit |-> FALSE,
          m |-> [Bucket |-> o.bucket, Project |-> o.project,
                 Branch |-> o.branch, Commit |-> o.commit]]

\* the invocation ends in its command's Action: it returns, calls os.Exit(1)
\* or panics with the error a component returned
Finish(code, err, out) ==
    /\ pc' = "idle"
    /\ exit' = [code |-> code, err |-> err, out |-> out, by |-> "Action"]

\* a function below the Action panics with err
PanicIn(function, err) ==
    /\ pc' = "idle"
    /\ exit' = [code |-> "panic", err |-> err, out |-> "", by |-> function]

\* a new invocation starts; a running invocation has exit = NoExit
Start(c, max) ==
    /\ pc = "idle"
    /\ ncmd < max
    /\ ncmd' = ncmd + 1
    /\ cmd' = c

\* what an invocation starts from
ResetUpload == walk' = <<>> /\ wlog' = <<>>
ResetDownload ==
    /\ d' = NoDownloader
    /\ marker' = ""
    /\ page' = <<>>
    /\ more' = FALSE
    /\ xf' = NoXf
    /\ dlog' = <<>>

\* cli: the process exits before it has built an Mhook
ExitEarly ==
    /\ Finish("exit1", Nil, "")
    /\ m' = NoMhook
    /\ polls' = 0
    /\ ResetUpload
    /\ ResetDownload
    /\ UNCHANGED <<store, fs, req, up, published>>

----------------------------------------------------------------------------
(* head *)

\* headCommand.Action and Head: one GetObject of the HEAD key; errors panic
HeadCmd(o) ==
    /\ Start([NoCmd EXCEPT !.name = "head"], MaxCmds)
    /\ LET c == collectOptions(o)
       IN  IF c.exit THEN ExitEarly
           ELSE /\ m' = c.m
                /\ req' = [op |-> "GetObject", key |-> HeadKey(c.m), cond |-> "", m |-> c.m]
                /\ \/ \E e \in ServiceErrors : PanicIn("Head", e)
                   \/ /\ ~ObjectExists(store, HeadKey(c.m))
                      /\ PanicIn("Head", RequestFailure("NoSuchKey", "404"))
                   \/ /\ ObjectExists(store, HeadKey(c.m))
                      /\ Finish("ok", Nil, store[ObjectName(HeadKey(c.m))].body)
                /\ polls' = 0
                /\ ResetUpload
                /\ ResetDownload
                /\ UNCHANGED <<store, fs, up, published>>
    /\ UNCHANGED keyVars

----------------------------------------------------------------------------
(* upload *)

\* an Upload that drops the prefix from the key
UploadKeyNoPrefix(mh, prefix, path) == Key(mh, Base(path))

\* the key Upload stores a walked file under
UploadKey(mh, prefix, path) == Key(mh, prefix \o Base(path))

\* Mhook.ToLatest
ToLatest(mh) == [mh EXCEPT !.Commit = "latest"]

\* uploadCommand.Action once an Upload has returned nil
UploadReturned(phase, latest) ==
    IF phase = "upload" /\ latest
    THEN pc' = "writehead" /\ exit' = NoExit /\ UNCHANGED published
    ELSE /\ Finish("ok", Nil, "")
         /\ published' = IF phase = "uplatest" THEN Append(published, cmd.commit)
                          ELSE published

\* Mhook.Upload up to the first file: filepath.Walk(filepath.Clean(source))
BeginUpload(f, source, phase, latest) ==
    LET root == Clean(source)
    IN  IF root \notin DOMAIN f /\ root \notin RootDirs
        THEN /\ walk' = <<>>
             /\ Finish("panic", PathError("lstat", root, "ENOENT"), "")
             /\ UNCHANGED published
        ELSE /\ walk' = WalkFiles(f, root)
             /\ IF WalkFiles(f, root) = <<>>
                THEN UploadReturned(phase, latest)
                ELSE pc' = phase /\ exit' = NoExit /\ UNCHANGED published

\* uploadCommand.Action up to the first file of the commit's upload
UploadCmd(o, args, latest) ==
    /\ Start([NoCmd EXCEPT !.name = "upload", !.commit = o.commit,
                           !.source = IF Len(args) > 0 THEN args[1] ELSE "",
                           !.prefix = IF Len(args) > 1 THEN args[2] ELSE "",
                           !.latest = latest], MaxCmds)
    /\ LET c == collectOptions(o)
       IN  IF Len(args) = 0 \/ c.exit THEN ExitEarly
           ELSE /\ m' = c.m
                /\ wlog' = <<>>
                /\ polls' = 0
                /\ ResetDownload
                /\ BeginUpload(fs, args[1], "upload", latest)
                /\ UNCHANGED <<store, fs, req, up>>
    /\ UNCHANGED keyVars

\* the walk function of Mhook.Upload on one regular file
UploadFile ==
    /\ pc \in {"upload", "uplatest"}
    /\ LET path == Head(walk)
           key  == UploadKey(m, cmd.prefix, path)
       IN  /\ req' = [op |-> "PutObject", key |-> key, cond |-> "", m |-> m]
           /\ \/ /\ \E e \in ServiceErrors : Finish("panic", e, "")
                 /\ UNCHANGED <<store, walk, wlog, up, published>>
              \/ /\ store' = PutObject(store, key, fs[path].data)
                 /\ wlog' = Append(wlog, key)
                 /\ up' = [m |-> m, target |-> cmd.prefix \o Base(path),
                           data |-> fs[path].data]
                 /\ walk' = Tail(walk)
                 /\ IF Tail(walk) # <<>> THEN UNCHANGED <<pc, exit, published>>
                    ELSE UploadReturned(pc, cmd.latest)
    /\ UNCHANGED <<fs, cmd, m, ncmd, polls>>
    /\ UNCHANGED dlVars
    /\ UNCHANGED keyVars

\* Mhook.WriteHead and, when it succeeds, the start of ToLatest().Upload
WriteHead ==
    /\ pc = "writehead"
    /\ req' = [op |-> "PutObject", key |-> HeadKey(m), cond |-> "", m |-> m]
    /\ \/ /\ \E e \in ServiceErrors : Finish("panic", e, "")
          /\ UNCHANGED <<store, wlog, m, walk, published>>
       \/ /\ store' = PutObject(store, HeadKey(m), m.Commit)
          /\ wlog' = Append(wlog, HeadKey(m))
          /\ m' = ToLatest(m)
          /\ BeginUpload(fs, cmd.source, "uplatest", cmd.latest)
    /\ UNCHANGED <<fs, cmd, ncmd, up, polls>>
    /\ UNCHANGED dlVars
    /\ UNCHANGED keyVars

----------------------------------------------------------------------------
(* wait *)

\* Mhook.Download up to the first page request
BeginDownload(mh, target, destination) ==
    /\ d' = [dir |-> destination, prefix |-> Drop(Key(mh, target), 1), err |-> Nil]
    /\ marker' = ""
    /\ page' = <<>>
    /\ more' = FALSE
    /\ xf' = NoXf
    /\ dlog' = <<>>
    /\ pc' = "list"
    /\ exit' = NoExit

\* a waiter that never gives up
WaiterRetriesForever(n) == TRUE

\* whether the waiter makes another attempt after attempt n found nothing
WaiterRetries(n) == n < MaxAttempts

\* waitCommand.Action up to the first poll
WaitCmd(o, args) ==
    /\ Start([NoCmd EXCEPT !.name = "wait", !.commit = o.commit,
                           !.target = IF Len(args) > 0 THEN args[1] ELSE ""], MaxWaits)
    /\ LET c == collectOptions(o)
       IN  IF Len(args) = 0 \/ c.exit THEN ExitEarly
           ELSE /\ m' = c.m
                /\ pc' = "wait"
                /\ polls' = 0
                /\ ResetUpload
                /\ ResetDownload
                /\ exit' = NoExit
                /\ UNCHANGED <<store, fs, req, up, published>>
    /\ UNCHANGED keyVars

\* Mhook.Wait: one attempt of WaitUntilObjectExists, a HeadObject of the key
WaitPoll ==
    /\ pc = "wait"
    /\ req' = [op |-> "HeadObject", key |-> Key(m, cmd.target), cond |-> "", m |-> m]
    /\ polls' = polls + 1
    /\ \/ /\ ObjectExists(store, Key(m, cmd.target))
          /\ IF cmd.name = "download"
             THEN BeginDownload(m, cmd.target, cmd.destination)
             ELSE Finish("ok", Nil, "") /\ UNCHANGED dlVars
       \/ /\ ~ObjectExists(store, Key(m, cmd.target))
          /\ IF WaiterRetries(polls + 1)
             THEN UNCHANGED <<pc, exit>>
             ELSE Finish("exit1", WaitTimeout, "")
          /\ UNCHANGED dlVars
       \/ /\ \E e \in ServiceErrors : Finish("exit1", e, "")
          /\ UNCHANGED dlVars
    /\ UNCHANGED <<store, fs, cmd, m, ncmd>>
    /\ UNCHANGED upVars
    /\ UNCHANGED keyVars

\* another writer stores the object an invocation is waiting for
ExternalPut ==
    /\ pc = "wait"
    /\ ~ObjectExists(store, Key(m, cmd.target))
    /\ store' = PutObject(store, Key(m, cmd.target), "ext")
    /\ UNCHANGED <<fs, pc, cmd, m, ncmd, exit, req, polls>>
    /\ UNCHANGED upVars
    /\ UNCHANGED dlVars
    /\ UNCHANGED keyVars

----------------------------------------------------------------------------
(* download *)

Min(a, b) == IF a < b THEN a ELSE b

\* downloadCommand.Action up to the first poll or the first page request
DownloadCmd(o, args, w) ==
    LET target      == IF Len(args) > 0 THEN args[1] ELSE ""
        given       == IF Len(args) > 1 THEN args[2] ELSE ""
        destination == IF given = "" THEN Base(target) ELSE given
        c           == collectOptions(o)
    IN  /\ Start([NoCmd EXCEPT !.name = "download", !.commit = o.commit, !.target = target,
                               !.destination = destination, !.wait = w],
                 IF w THEN MaxWaits ELSE MaxCmds)
        /\ IF Len(args) = 0 \/ c.exit THEN ExitEarly
           ELSE /\ m' = c.m
                /\ polls' = 0
                /\ ResetUpload
                /\ IF w THEN pc' = "wait" /\ ResetDownload /\ exit' = NoExit
                   ELSE BeginDownload(c.m, target, destination)
                /\ UNCHANGED <<store, fs, req, up, published>>
        /\ UNCHANGED keyVars

\* a Download that reports a target without objects as missing
DownloadReturnedNotFound(dd) ==
    IF dd.err # Nil THEN Finish("panic", dd.err, "")
    ELSE IF pc = "list" /\ dlog = <<>>
         THEN Finish("panic", RequestFailure("NoSuchKey", "404"), "")
    ELSE Finish("ok", Nil, "")

\* Mhook.Download once ListObjectsPages has returned nil
DownloadReturned(dd) ==
    IF dd.err # Nil THEN Finish("panic", dd.err, "") ELSE Finish("ok", Nil, "")

\* ListObjectsPages: the request of one page; a failed request ends Download
ListPage ==
    /\ pc = "list"
    /\ req' = [op |-> "ListObjects", key |-> d.prefix, cond |-> "", m |-> m]
    /\ \/ /\ \E e \in ServiceErrors : Finish("panic", e, "")
          /\ UNCHANGED <<marker, page, more>>
       \/ LET all == Listing(store, d.prefix, marker)
              pg  == SubSeq(all, 1, Min(PageSize, Len(all)))
          IN  /\ page' = pg
              /\ more' = (Len(all) > PageSize)
              /\ marker' = IF Len(pg) = 0 THEN marker ELSE pg[Len(pg)]
              /\ IF Len(pg) = 0 THEN DownloadReturned(d)
                 ELSE pc' = "object" /\ UNCHANGED exit
    /\ UNCHANGED <<store, fs, cmd, m, ncmd, d, xf, dlog, polls, up, published>>
    /\ UNCHANGED <<walk, wlog>>
    /\ UNCHANGED keyVars

\* eachPage that goes on to the next object after a failure
EachPageKeepsGoing(dd, pg, mr, err) ==
    LET de == IF err # Nil THEN [dd EXCEPT !.err = err] ELSE dd
    IN  IF Len(pg) > 1 THEN [d |-> de, page |-> Tail(pg), pc |-> "object"]
        ELSE IF mr THEN [d |-> de, page |-> <<>>, pc |-> "list"]
        ELSE [d |-> de, page |-> <<>>, pc |-> "return"]

\* eachPage that ends the listing after its page
EachPageOnePage(dd, pg, mr, err) ==
    IF err # Nil THEN [d |-> [dd EXCEPT !.err = err], page |-> pg, pc |-> "return"]
    ELSE IF Len(pg) > 1 THEN [d |-> dd, page |-> Tail(pg), pc |-> "object"]
    ELSE [d |-> dd, page |-> <<>>, pc |-> "return"]

\* downloader.eachPage after downloadToFile has returned err for the first
\* object of pg: where the download goes next
EachPageStep(dd, pg, mr, err) ==
    IF err # Nil THEN [d |-> [dd EXCEPT !.err = err], page |-> pg, pc |-> "return"]
    ELSE IF Len(pg) > 1 THEN [d |-> dd, page |-> Tail(pg), pc |-> "object"]
    ELSE IF mr THEN [d |-> dd, page |-> <<>>, pc |-> "list"]
    ELSE [d |-> dd, page |-> <<>>, pc |-> "return"]

\* downloadToFile returns: its outcome is logged and eachPage takes over
ObjectDone(key, file, res, err, bytes) ==
    LET nxt == EachPageStep(d, page, more, err)
    IN  /\ dlog' = Append(dlog, [key |-> key, file |-> file, res |-> res,
                                 err |-> err, bytes |-> bytes])
        /\ xf' = NoXf
        /\ d' = nxt.d
        /\ page' = nxt.page
        /\ IF nxt.pc = "return" THEN DownloadReturned(nxt.d)
           ELSE pc' = nxt.pc /\ UNCHANGED exit

\* a cleanup that leaves the temp file behind
NoCleanup(f, name) == f

\* the deferred os.Remove(temp.Name())
Cleanup(f, name) == IF name \in DOMAIN f THEN RemoveEntry(f, name) ELSE f

\* a transfer written straight to the destination
ChunkPathInPlace(x) == x.file

\* the file the bytes of the transfer are written to
ChunkPath(x) == x.temp

\* a fingerprint that is never computed
NoFingerprint(f, path) == ""

\* the precondition downloadToFile sends with its GetObject
IfNoneMatch(f, file) == readMD5Sum(f, file)

\* the local path of an object
LocalPath(dd, key) == Join(dd.dir, Drop(key, Len(dd.prefix)))

\* the entry at a path, or none
EntryAt(f, p) == IF p \in DOMAIN f THEN f[p] ELSE [kind |-> "none", data |-> ""]

\* downloadToFile up to the store's answer to GetObject
DlBegin ==
    /\ pc = "object"
    /\ LET key        == Head(page)
           file       == LocalPath(d, key)
           targetPath == Dir(file)
           mk         == MkdirAll(fs, targetPath)
           tf         == TempFile(mk.fs, targetPath)
           etag       == IfNoneMatch(fs, file)
       IN  IF mk.err # Nil
           THEN /\ fs' = mk.fs
                /\ ObjectDone(key, file, "err", mk.err, 0)
                /\ UNCHANGED req
           ELSE IF tf.err # Nil
           THEN /\ fs' = mk.fs
                /\ ObjectDone(key, file, "err", tf.err, 0)
                /\ UNCHANGED req
           ELSE /\ req' = [op |-> "GetObject", key |-> key, cond |-> etag, m |-> m]
                /\ \/ /\ \E e \in ServiceErrors : ObjectDone(key, file, "err", e, 0)
                      /\ fs' = Cleanup(tf.fs, tf.name)
                   \/ /\ etag = store[key].etag
                      /\ ObjectDone(key, file, "notmod", Nil, 0)
                      /\ fs' = Cleanup(tf.fs, tf.name)
                   \/ /\ etag # store[key].etag
                      /\ fs' = tf.fs
                      /\ xf' = [key |-> key, file |-> file, temp |-> tf.name,
                                etag |-> etag, left |-> store[key].body,
                                pre |-> EntryAt(fs, file)]
                      /\ pc' = "xfer"
                      /\ UNCHANGED <<d, page, dlog, exit>>
    /\ UNCHANGED <<store, cmd, m, ncmd, marker, more, polls>>
    /\ UNCHANGED upVars
    /\ UNCHANGED keyVars

\* the downloader writes the next byte of the body
DlChunk ==
    /\ pc = "xfer"
    /\ Len(xf.left) > 0
    /\ LET p   == ChunkPath(xf)
           old == IF IsFile(fs, p) THEN fs[p].data ELSE ""
       IN  fs' = WriteEntry(fs, p, FileEntry(old \o CharAt(xf.left, 1)))
    /\ xf' = [xf EXCEPT !.left = Drop(xf.left, 1)]
    /\ UNCHANGED <<store, pc, cmd, m, ncmd, exit, req, d, marker, page, more, dlog, polls>>
    /\ UNCHANGED upVars
    /\ UNCHANGED keyVars

\* the transfer fails after it has started: line 237-246
DlAbort ==
    /\ pc = "xfer"
    /\ \E e \in ServiceErrors :
           ObjectDone(xf.key, xf.file, "err", e, Len(store[xf.key].body) - Len(xf.left))
    /\ fs' = Cleanup(fs, xf.temp)
    /\ UNCHANGED <<store, cmd, m, ncmd, req, marker, more, polls>>
    /\ UNCHANGED upVars
    /\ UNCHANGED keyVars

\* the transfer is complete: os.Rename of the temp file onto the destination
DlRename ==
    /\ pc = "xfer"
    /\ Len(xf.left) = 0
    /\ LET r == Rename(fs, xf.temp, xf.file)
       IN  /\ fs' = Cleanup(r.fs, xf.temp)
           /\ ObjectDone(xf.key, xf.file, IF r.err = Nil THEN "ok" ELSE "err", r.err,
                         Len(store[xf.key].body))
    /\ UNCHANGED <<store, cmd, m, ncmd, req, marker, more, polls>>
    /\ UNCHANGED upVars
    /\ UNCHANGED keyVars

----------------------------------------------------------------------------
(* The program: a sequence of invocations *)

\* head takes no commit flag
HeadFlags == {[o EXCEPT !.commit = ""] : o \in Flags}

UploadArgs   == {<<>>} \cup {<<s, p>> : s \in Sources, p \in Prefixes}
DownloadArgs == {<<>>} \cup {<<t, dst>> : t \in Targets, dst \in Destinations}
WaitArgs     == {<<>>} \cup {<<t>> : t \in Targets}

Next ==
    \/ \E o \in HeadFlags : HeadCmd(o)
    \/ \E o \in Flags, args \in UploadArgs, latest \in BOOLEAN : UploadCmd(o, args, latest)
    \/ UploadFile
    \/ WriteHead
    \/ \E o \in Flags, args \in DownloadArgs : DownloadCmd(o, args, FALSE)
    \/ ListPage
    \/ DlBegin
    \/ DlChunk
    \/ DlAbort
    \/ DlRename

Spec == Init /\ [][Next]_vars

\* the invocations that wait for their target
WaitNext ==
    \/ \E o \in Flags, args \in WaitArgs : WaitCmd(o, args)
    \/ \E o \in Flags, args \in DownloadArgs : DownloadCmd(o, args, TRUE)
    \/ WaitPoll
    \/ ExternalPut
    \/ ListPage
    \/ DlBegin
    \/ DlChunk
    \/ DlAbort
    \/ DlRename

\* a running process takes its next step: a waiting invocation keeps polling
WaitSpec == Init /\ [][WaitNext]_vars /\ WF_vars(WaitPoll)

----------------------------------------------------------------------------
(* The Key Resolver on its own: two coordinates are drawn and resolved *)

KProjects == {"app", "a", "a/b"}
KBranches == {"main", "b", "b/c", ""}
KCommits  == {"abc123", "c", "c/c", "latest"}
KTargets  == {"bin/server", "c/t", "t"}

KCoords == [Project : KProjects, Branch : KBranches, Commit : KCommits, target : KTargets]

KeyInit ==
    /\ ProgramInit
    /\ coordA \in KCoords
    /\ coordB \in KCoords
    /\ keys = NoKeys

\* Key and HeadKey are called on the coordinates
ResolveKeys ==
    /\ ~keys.done
    /\ keys' = [a |-> Key(coordA, coordA.target), b |-> Key(coordB, coordB.target),
                head |-> HeadKey(coordA), done |-> TRUE]
    /\ UNCHANGED <<store, fs, pc, cmd, m, ncmd, exit, req, polls, coordA, coordB>>
    /\ UNCHANGED upVars
    /\ UNCHANGED dlVars

KeyNext == ResolveKeys

KeySpec == KeyInit /\ [][KeyNext]_vars

----------------------------------------------------------------------------
(* Publishing on its own: uploads with the latest option to one project and
   branch of a bucket that holds nothing yet *)

PubFlags ==
    { [bucket |-> "bk", project |-> "p", branch |-> "b", commit |-> c] : c \in {"c1", "c2"} }

PubArgs == {<<"src/a", "t/">>, <<"src/a", "u/">>, <<"src">>}

EmptyStore == [k \in {} |-> [body |-> "", etag |-> ""]]

PublishInit ==
    /\ InitWith(EmptyStore, InitFS)
    /\ coordA = NoCoord
    /\ coordB = NoCoord
    /\ keys = NoKeys

PublishNext ==
    \/ \E o \in PubFlags, args \in PubArgs : UploadCmd(o, args, TRUE)
    \/ UploadFile
    \/ WriteHead

PublishSpec == PublishInit /\ [][PublishNext]_vars

----------------------------------------------------------------------------
(* Downloading on its own, from a bucket in which another writer has also
   stored a key with a ".." element *)

TreeStore == PutObject(InitStore, "/p/b/c1/t/../e", "ev")

TreeFlags == {o \in Flags : o.bucket # "" /\ o.project # "" /\ o.branch # ""}

TreeArgs == {<<"t">>, <<"t", "src">>, <<"t/a">>, <<"t/a", "ro/o">>}

DownloadInit ==
    /\ InitWith(TreeStore, InitFS)
    /\ coordA = NoCoord
    /\ coordB = NoCoord
    /\ keys = NoKeys

DownloadNext ==
    \/ \E o \in TreeFlags, args \in TreeArgs : DownloadCmd(o, args, FALSE)
    \/ ListPage
    \/ DlBegin
    \/ DlChunk
    \/ DlAbort
    \/ DlRename

\* a running download takes its next step. downloadToFile can begin exactly
\* when pc = "object", and a bounded run begins it finitely often, so its weak
\* fairness is that pc is again and again not "object"
DownloadFair ==
    /\ WF_vars(ListPage)
    /\ WF_vars(DlChunk)
    /\ WF_vars(DlRename)
    /\ []<>(pc # "object")

DownloadSpec == DownloadInit /\ [][DownloadNext]_vars /\ DownloadFair

----------------------------------------------------------------------------
(* Claims *)

\* C1: Key(target) is "/" + project + "/" + branch + "/" + commit + "/" + target
\* and HeadKey() is "/" + project + "/" + branch + "/HEAD", whatever the fields
\* hold; resolving issues no request and changes neither store nor files.
C1_KeyLayout ==
    keys.done =>
        /\ keys.a = "/" \o coordA.Project \o "/" \o coordA.Branch \o "/"
                        \o coordA.Commit \o "/" \o coordA.target
        /\ keys.head = "/" \o coordA.Project \o "/" \o coordA.Branch \o "/HEAD"
        /\ ( coordA = [Project |-> "app", Branch |-> "main", Commit |-> "abc123",
                       target |-> "bin/server"]
             => keys.a = "/app/main/abc123/bin/server" )
        /\ store = InitStore /\ fs = InitFS /\ req = NoReq

C1_Witness ==
    /\ keys.done
    /\ coordA = [Project |-> "app", Branch |-> "main", Commit |-> "abc123",
                 target |-> "bin/server"]
    /\ keys.a = "/app/main/abc123/bin/server"
    /\ keys.head = "/app/main/HEAD"

ValidCoord(c) == c.Project # "" /\ c.Branch # ""

SlashFree(c) == ~HasSlash(c.Project) /\ ~HasSlash(c.Branch) /\ ~HasSlash(c.Commit)

\* C2 as claimed: two valid coordinates that differ in a field resolve to
\* different keys, also when fields contain "/".
C2_Injective ==
    (keys.done /\ ValidCoord(coordA) /\ ValidCoord(coordB) /\ coordA # coordB)
        => keys.a # keys.b

\* C2 amended: two valid coordinates whose project, branch and commit contain
\* no "/" (the target may) and that differ in a field resolve to different keys.
C2_InjectiveSlashFree ==
    ( /\ keys.done
      /\ ValidCoord(coordA) /\ ValidCoord(coordB)
      /\ SlashFree(coordA) /\ SlashFree(coordB)
      /\ coordA # coordB )
        => keys.a # keys.b

C2_Witness ==
    /\ keys.done
    /\ ValidCoord(coordA) /\ ValidCoord(coordB)
    /\ SlashFree(coordA) /\ SlashFree(coordB)
    /\ coordA.Branch # coordB.Branch
    /\ coordA.Project = coordB.Project
    /\ coordA.Commit = coordB.Commit
    /\ coordA.target = coordB.target
    /\ HasSlash(coordA.target)
    /\ keys.a # keys.b

Last(sq) == sq[Len(sq)]

IsTempPath(p) == HasPrefix(Base(p), "mhook-")

\* a step changes the file at p, which is no temp file
FileChanges(p) ==
    /\ ~IsTempPath(p)
    /\ EntryAt(fs, p) # EntryAt(fs', p)
    /\ (EntryAt(fs, p).kind = "file" \/ EntryAt(fs', p).kind = "file")

\* while a transfer runs the destination is as downloadToFile found it
C3_DestinationUntouched == pc = "xfer" => EntryAt(fs, xf.file) = xf.pre

\* a file changes only by the rename of the completely written temp file onto it
C3_OnlyRename ==
    \A p \in DOMAIN fs \cup DOMAIN fs' :
        FileChanges(p) =>
            /\ pc = "xfer"
            /\ p = xf.file
            /\ Len(xf.left) = 0
            /\ fs[xf.temp].data = store[xf.key].body
            /\ fs'[p] = fs[xf.temp]

\* when downloadToFile returns an error the destination is as it found it
C3_FailureRestores ==
    (pc = "xfer" /\ pc' # "xfer" /\ Last(dlog').res = "err")
        => EntryAt(fs', xf.file) = xf.pre

\* C3: a transfer that fails after it has started leaves the destination with
\* the content it had before the call (or absent); the destination path never
\* holds partly written bytes; it changes only by the final rename of the
\* completely written temp file.
C3_Atomic ==
    /\ []C3_DestinationUntouched
    /\ [][C3_OnlyRename /\ C3_FailureRestores]_vars

\* a transfer onto an existing file failed after a byte had arrived
C3_Witness ==
    /\ pc = "idle"
    /\ cmd.name = "download"
    /\ Len(dlog) = 1
    /\ dlog[1].res = "err"
    /\ dlog[1].bytes = 1
    /\ dlog[1].file = "src/a"
    /\ IsFile(fs, "src/a")
    /\ fs["src/a"].data = "hi"

\* the object downloadToFile is about to fetch, and its local path
NextKey == Head(page)
NextFile == LocalPath(d, Head(page))

\* the local file holds the bytes of the remote object
LocalIsRemote ==
    /\ pc = "object"
    /\ IsFile(fs, NextFile)
    /\ fs[NextFile].data = store[NextKey].body

\* downloadToFile sends the fingerprint, transfers nothing, renames nothing and,
\* unless the request itself fails, returns nil on "not modified"
NotModifiedOutcome ==
    /\ pc' # "xfer"
    /\ EntryAt(fs', NextFile) = EntryAt(fs, NextFile)
    /\ Last(dlog').key = NextKey
    /\ Last(dlog').bytes = 0
    /\ req'.op = "GetObject"
    /\ req'.cond = MD5Hex(fs[NextFile].data)
    /\ Last(dlog').err \notin ServiceErrors =>
           Last(dlog').res = "notmod" /\ Last(dlog').err = Nil

\* a call that transfers the object renames all its bytes into place
C4_FirstTransfers ==
    (pc = "xfer" /\ pc' # "xfer" /\ Last(dlog').res = "ok")
        => /\ IsFile(fs', xf.file)
           /\ fs'[xf.file].data = store[xf.key].body
           /\ Last(dlog').bytes = Len(store[xf.key].body)

\* C4 as claimed: a download transfers the object and renames it into place; a
\* second download of the unchanged object, the local file being that copy,
\* sends the file's fingerprint, gets "not modified", transfers zero bytes,
\* returns nil, renames nothing and leaves the file as it is.
C4_Idempotent ==
    [][C4_FirstTransfers /\ (LocalIsRemote => NotModifiedOutcome)]_vars

\* C4 amended: the same, for an object whose ETag in the store is the MD5 of
\* its content.
C4_IdempotentMD5 ==
    [][ /\ C4_FirstTransfers
        /\ (LocalIsRemote /\ store[NextKey].etag = MD5Hex(store[NextKey].body))
               => NotModifiedOutcome ]_vars

\* the second download of a target found the copy the first one had made
C4_Witness ==
    /\ pc = "idle"
    /\ ncmd = 2
    /\ cmd.name = "download"
    /\ exit.code = "ok"
    /\ Len(dlog) = 1
    /\ dlog[1].res = "notmod"
    /\ dlog[1].file = "a"
    /\ dlog[1].bytes = 0
    /\ IsFile(fs, "a")
    /\ fs["a"].data = "nw"

\* C5: Download attempts the objects under the prefix in listing order; when
\* object k fails, the objects transferred before it are at their local paths
\* (the directory joined with the key minus the prefix), k is the last object
\* attempted, on its page and on later pages, and Download returns k's error.
C5_FailFast ==
    cmd.name = "download" =>
        LET L == Listing(store, d.prefix, "")
        IN  \A i \in 1..Len(dlog) :
                /\ i <= Len(L)
                /\ dlog[i].key = L[i]
                /\ dlog[i].file = Join(d.dir, Drop(L[i], Len(d.prefix)))
                /\ dlog[i].res = "ok" =>
                       /\ IsFile(fs, dlog[i].file)
                       /\ fs[dlog[i].file].data = store[L[i]].body
                /\ dlog[i].res = "err" =>
                       /\ i = Len(dlog)
                       /\ pc = "idle"
                       /\ xf = NoXf
                       /\ dlog[i].err # Nil
                       /\ d.err = dlog[i].err
                       /\ exit.code = "panic"
                       /\ exit.err = dlog[i].err

\* of three objects the second failed: the first is in place, the third, on
\* the next page, was not attempted
C5_Witness ==
    /\ pc = "idle"
    /\ cmd.name = "download"
    /\ Len(Listing(store, d.prefix, "")) = 3
    /\ Len(dlog) = 2
    /\ dlog[1].res = "ok"
    /\ IsFile(fs, dlog[1].file)
    /\ dlog[2].res = "err"
    /\ exit.err = dlog[2].err
    /\ ~IsFile(fs, LocalPath(d, Listing(store, d.prefix, "")[3]))

\* a key under /project/branch/latest/
UnderLatest(key, mh) ==
    HasPrefix(key, "/" \o mh.Project \o "/" \o mh.Branch \o "/latest/")

\* C6: in an upload with the latest option, HEAD is written with the commit as
\* its body before any object under /project/branch/latest/ is written; without
\* a HEAD write there is no write under latest/.
C6_HeadBeforeLatest ==
    (cmd.name = "upload" /\ cmd.latest) =>
        \A i \in 1..Len(wlog) :
            UnderLatest(wlog[i], m) =>
                /\ \E j \in 1..(i - 1) : wlog[j] = HeadKey(m)
                /\ store[ObjectName(HeadKey(m))].body = cmd.commit

\* C7: a temp file exists only while its transfer runs; after downloadToFile
\* has returned, by whatever path, no temp file is left.
C7_NoTempLeft ==
    IF pc = "xfer" THEN TempFiles(fs) = {xf.temp} ELSE TempFiles(fs) = {}

\* two objects were renamed into place and the transfer of the third failed
\* after its byte had been written to the temp file
C7_Witness ==
    /\ pc = "idle"
    /\ cmd.name = "download"
    /\ Len(dlog) = 3
    /\ dlog[1].res = "ok"
    /\ dlog[2].res = "ok"
    /\ dlog[3].res = "err"
    /\ dlog[3].bytes = 1
    /\ TempFiles(fs) = {}

\* C8: when Download returns nil for the coordinate and target the last
\* uploaded file was stored under, the destination is a file with the bytes of
\* the uploaded file.
C8_RoundTrip ==
    ( /\ pc = "idle"
      /\ cmd.name = "download"
      /\ exit.code = "ok"
      /\ up.m = m
      /\ up.target = cmd.target )
        => /\ IsFile(fs, Clean(cmd.destination))
           /\ fs[Clean(cmd.destination)].data = up.data

\* src/a was uploaded and then downloaded to a new file
C8_Witness ==
    /\ pc = "idle"
    /\ cmd.name = "download"
    /\ exit.code = "ok"
    /\ up.m = m
    /\ up.target = cmd.target
    /\ up.data = "hi"
    /\ cmd.destination = "a"
    /\ Len(dlog) = 1
    /\ dlog[1].res = "ok"
    /\ fs["a"].data = "hi"

\* C9: no request reaches the store with a key built from an empty project or
\* an empty branch.
C9_NoEmptyCoordinate ==
    req.op # "" => (req.m.Project # "" /\ req.m.Branch # "")

\* C10: Wait makes at most MaxAttempts attempts: one that finds the key ends
\* Wait with success, the last one that does not ends it with the waiter's
\* timeout error; a waiting invocation always stops waiting.
C10_BoundedWait ==
    /\ [](pc = "wait" => polls < MaxAttempts)
    /\ []((pc = "idle" /\ cmd.name = "wait" /\ exit.code = "ok")
            => ObjectExists(store, Key(m, cmd.target)))
    /\ []((pc = "idle" /\ exit.err = WaitTimeout)
            => (polls = MaxAttempts /\ exit.code = "exit1"))
    /\ [][(pc = "wait" /\ pc' # "wait" /\ ObjectExists(store, Key(m, cmd.target)))
            => exit'.err # WaitTimeout]_vars
    /\ (pc = "wait") ~> (pc # "wait")

\* the key never appeared and Wait gave up
C10_Witness ==
    /\ pc = "idle"
    /\ cmd.name = "wait"
    /\ exit.err = WaitTimeout
    /\ polls = MaxAttempts
    /\ ~ObjectExists(store, Key(m, cmd.target))

\* the text sub occurs in s
Occurs(sub, s) ==
    \E i \in 1..(Len(s) - Len(sub) + 1) : SubSeq(s, i, i + Len(sub) - 1) = sub

\* an error value names a key: the key is in its operation, its path or status,
\* or its code
ErrorNames(e, key) == Occurs(key, e.op) \/ Occurs(key, e.path) \/ Occurs(key, e.code)

\* C11: when a tree download fails on an object after earlier objects were
\* done, the error Download returns is that object's error and names the key
\* of the object that failed.
C11_ErrorNamesKey ==
    ( /\ pc = "idle"
      /\ cmd.name = "download"
      /\ Len(dlog) > 1
      /\ Last(dlog).res = "err" )
        => /\ exit.err = Last(dlog).err
           /\ ErrorNames(exit.err, Last(dlog).key)

\* errors of the local filesystem: the destination cannot be created or written
LocalErrors == {"PathError", "LinkError"}

\* C13: a download that fails because its destination cannot be created or
\* written fails before any object was requested from the store and before any
\* byte was written locally.
C13_NotWritableFirst ==
    ( /\ pc = "idle"
      /\ cmd.name = "download"
      /\ exit.err.type \in LocalErrors )
        => /\ Len(dlog) = 1
           /\ Last(dlog).bytes = 0
           /\ req.op # "GetObject"

\* the component operations
Components == {"Head", "WriteHead", "Wait", "Upload", "Download"}

\* C14: no component operation ends the process itself: a failure inside one
\* reaches the command's Action as an error value.
C14_ErrorsReturned == exit.by \notin Components

\* C15: when the local file does not exist or cannot be read, downloadToFile
\* sends no fingerprint, is never answered "not modified" and transfers the
\* whole object; a download is skipped only on "not modified" to a request that
\* carried the fingerprint of the existing local file.
C15_FailOpen ==
    [][ /\ (pc = "object" /\ ~IsFile(fs, NextFile)) =>
               /\ Len(dlog') > Len(dlog) => Last(dlog').res # "notmod"
               /\ req' # req => (req'.op = "GetObject" /\ req'.cond = "")
               /\ pc' = "xfer" => (xf'.left = store[NextKey].body /\ xf'.etag = "")
        /\ (Len(dlog') > Len(dlog) /\ Last(dlog').res = "notmod") =>
               /\ pc = "object"
               /\ IsFile(fs, NextFile)
               /\ req'.op = "GetObject"
               /\ req'.key = NextKey
               /\ req'.cond = MD5Hex(fs[NextFile].data)
               /\ req'.cond = store[NextKey].etag ]_vars

\* an object was fetched to a path where no file was: no fingerprint was sent
\* and all its bytes were renamed into place
C15_Witness ==
    /\ pc = "idle"
    /\ cmd.name = "download"
    /\ exit.code = "ok"
    /\ Len(dlog) = 1
    /\ dlog[1].res = "ok"
    /\ dlog[1].file = "a"
    /\ dlog[1].bytes = 2
    /\ req.cond = ""
    /\ ncmd = 1
    /\ fs["a"].data = "nw"

\* the tree of commit c in mh's project and branch: the names below it with
\* the bodies stored under them
Tree(s, mh, c) ==
    LET pre == ObjectName(Key([mh EXCEPT !.Commit = c], ""))
    IN  { <<Drop(k, Len(pre)), s[k].body>> : k \in {n \in DOMAIN s : HasPrefix(n, pre)} }

\* C12: when every invocation so far was a publish that completed, the tree
\* under latest/ has the objects and contents of the tree of the commit
\* published last, and no others.
C12_LatestMirrors ==
    (pc = "idle" /\ ncmd > 0 /\ Len(published) = ncmd)
        => Tree(store, m, "latest") = Tree(store, m, Last(published))

\* a download that has returned success has an entry for every object under
\* the prefix, in listing order, none of them a failure
C16_AllProcessed ==
    (pc = "idle" /\ cmd.name = "download" /\ exit.code = "ok") =>
        LET L == Listing(store, d.prefix, "")
        IN  /\ Len(dlog) = Len(L)
            /\ \A i \in 1..Len(L) :
                   dlog[i].key = L[i] /\ dlog[i].res \in {"ok", "notmod"}

\* C16: a tree download that returns success has processed every object under
\* the prefix, of every page, once and in listing order; and a running download
\* comes to an end.
C16_CompleteEnumeration ==
    /\ []C16_AllProcessed
    /\ (cmd.name = "download" /\ pc # "idle") ~> (pc = "idle")

\* a download of more objects than a page holds returned success
C16_Witness ==
    /\ pc = "idle"
    /\ cmd.name = "download"
    /\ cmd.target = "t"
    /\ exit.code = "ok"
    /\ Len(dlog) = 4
    /\ Len(dlog) > PageSize
    /\ dlog[4].key = "p/b/c1/t/y"
    /\ dlog[4].res = "ok"

\* the path p is the directory dir or lies inside it
Inside(p, dir) == p = Clean(dir) \/ HasPrefix(p, Clean(dir) \o "/")

\* C19: every local path a download has written to, or is writing to, is the
\* destination or a path inside it.
C19_Confined ==
    /\ \A i \in 1..Len(dlog) : dlog[i].res = "ok" => Inside(dlog[i].file, d.dir)
    /\ pc = "xfer" => Inside(xf.file, d.dir)

\* the keys the invocation has written
Written == {wlog[i] : i \in 1..Len(wlog)}

\* C17: after a successful Upload of a source every regular file of the walk
\* has an object of its own with its bytes: as many keys were written as files
\* were walked, and each file's bytes are under one of them.
C17_OneObjectPerFile ==
    (pc = "idle" /\ cmd.name = "upload" /\ ~cmd.latest /\ exit.code = "ok") =>
        LET files == WalkFiles(fs, Clean(cmd.source))
        IN  /\ Cardinality(Written) = Len(files)
            /\ \A i \in 1..Len(files) :
                   \E k \in Written :
                       /\ HasPrefix(k, Key(m, ""))
                       /\ store[ObjectName(k)].body = fs[files[i]].data

\* the keys Upload stores the files of the invocation's source under, for the
\* commit of the command line
CommitKeys ==
    { UploadKey([m EXCEPT !.Commit = cmd.commit], cmd.prefix, p) :
        p \in {q \in DOMAIN fs : IsFile(fs, q) /\
                   (q = Clean(cmd.source) \/ HasPrefix(q, Clean(cmd.source) \o "/"))} }

\* C18: in an upload with the latest option, HEAD is written only after every
\* file of the source has its object under the commit; and when the upload of
\* the commit fails, this invocation has written neither HEAD nor any object
\* under latest/.
C18_HeadAfterCommitTree ==
    (cmd.name = "upload" /\ cmd.latest) =>
        /\ HeadKey(m) \in Written =>
               \A k \in CommitKeys :
                   /\ ObjectExists(store, k)
                   /\ \E i, j \in 1..Len(wlog) :
                          wlog[i] = k /\ wlog[j] = HeadKey(m) /\ i < j
        /\ ( /\ pc = "idle"
             /\ exit.code = "panic"
             /\ HeadKey(m) \notin Written
             /\ req.key # HeadKey(m) )
               => \A k \in Written : ~UnderLatest(k, m)

\* C20: when the listing for the prefix has no objects, Download ends with the
\* first page: it returns nil unless the listing request itself failed, has
\* requested no object and has changed no local file or directory.
C20_NothingToDownload ==
    [][ (pc = "list" /\ marker = "" /\ Listing(store, d.prefix, "") = <<>>) =>
            /\ pc' = "idle"
            /\ fs' = fs
            /\ dlog' = <<>>
            /\ req'.op = "ListObjects"
            /\ exit'.err \notin ServiceErrors =>
                   (exit'.code = "ok" /\ exit'.err = Nil) ]_vars

\* a download of a target nothing is stored under has returned nil
C20_Witness ==
    /\ pc = "idle"
    /\ cmd.name = "download"
    /\ cmd.commit = "latest"
    /\ exit.code = "ok"
    /\ d.prefix = "p/b/latest/t/a"
    /\ Listing(store, d.prefix, "") = <<>>
    /\ dlog = <<>>
    /\ req.op = "ListObjects"
    /\ fs = InitFS

====
